---- MODULE Spec2Model ----
(***************************************************************************)
(* Model of tools/memory_pack_validator.py (SoulSketch memory pack         *)
(* validator).  File contents are sequences of one-character strings, so   *)
(* that strip/split/regex/substring are computed as Python computes them.  *)
(***************************************************************************)
EXTENDS Integers, Sequences, FiniteSets, TLC

VARIABLES fs, results, pc, prev, lastEdit, path, report, cli, history,
          inheritance_log, ceremony_docs, certificates, ret

vars == <<fs, results, pc, prev, lastEdit, path, report, cli, history,
          inheritance_log, ceremony_docs, certificates, ret>>

validatorVars == <<fs, results, pc, prev, lastEdit, path, report, cli, history>>
trackerVars == <<inheritance_log, ceremony_docs, certificates, ret>>

(***************************************************************************)
(* Program constants                                                       *)
(***************************************************************************)
\* self.required_files, in dict insertion order
required_files ==
  <<"persona.md", "relationship_dynamics.md", "technical_domains.md",
    "stylistic_voice.md", "runtime_observations.jsonl">>

Files == {required_files[i] : i \in 1..Len(required_files)}

\* filename.endswith('.md') / filename.endswith('.jsonl')
Suffix(filename) ==
  IF filename = "runtime_observations.jsonl" THEN ".jsonl" ELSE ".md"

MdFiles == {f \in Files : Suffix(f) = ".md"}

LogFile == "runtime_observations.jsonl"

\* if file_info.get('size_bytes', 0) < 100
MinSizeBytes == 100

\* if validation['metrics']['word_count'] < 50
MinWordCount == 50

(***************************************************************************)
(* Bounds of the model                                                     *)
(***************************************************************************)
\* files of a pack that may differ from the empty / the complete pack
MaxDiff == 2
\* runs of the command line recorded between two changes of the pack
MaxRuns == 2
\* values of the clock
MaxTime == 2
\* largest length of sys.argv
MaxArgc == 3
\* distinct values _generate_ceremony_id can return
MaxIds == 3
\* longest event log written character by character
MaxLogLen == 5
\* longest structured document written character by character
MaxDocLen == 4

(***************************************************************************)
(* Python str primitives on sequences of characters                        *)
(***************************************************************************)
Min(S) == CHOOSE x \in S : \A y \in S : x <= y
Max(S) == CHOOSE x \in S : \A y \in S : x >= y

\* str.isspace for the characters of the model's alphabet
IsSpace(c) == c \in {" ", "\n"}

\* str.strip()
strip(s) ==
  LET ink == {i \in 1..Len(s) : ~IsSpace(s[i])}
  IN  IF ink = {} THEN <<>> ELSE SubSeq(s, Min(ink), Max(ink))

\* str.startswith(c) for a one-character prefix
startswith(s, c) == Len(s) > 0 /\ s[1] = c

\* str.split('\n')
RECURSIVE split_nl(_)
split_nl(s) ==
  LET nl == {i \in 1..Len(s) : s[i] = "\n"}
  IN  IF nl = {} THEN <<s>>
      ELSE <<SubSeq(s, 1, Min(nl) - 1)>> \o split_nl(SubSeq(s, Min(nl) + 1, Len(s)))

\* len(str.split()): maximal runs of non-whitespace
word_count(s) ==
  Cardinality({i \in 1..Len(s) : ~IsSpace(s[i]) /\ (i = 1 \/ IsSpace(s[i-1]))})

\* len(str.splitlines()): a trailing newline opens no extra line
line_count(s) ==
  Cardinality({i \in 1..Len(s) : s[i] = "\n"})
    + (IF Len(s) > 0 /\ s[Len(s)] # "\n" THEN 1 ELSE 0)

\* str.lower() on the letters the documents use
LowerChar(c) ==
  CASE c = "I" -> "i" [] c = "T" -> "t" [] c = "B" -> "b" [] c = "S" -> "s"
    [] c = "U" -> "u" [] c = "J" -> "j" [] OTHER -> c

lower(s) == [i \in 1..Len(s) |-> LowerChar(s[i])]

\* sub in s
contains(sub, s) ==
  \E i \in 1..(Len(s) - Len(sub) + 1) : SubSeq(s, i, i + Len(sub) - 1) = sub

(***************************************************************************)
(* re.findall(r'^#+\s+(.+)$', content, re.MULTILINE)                        *)
(***************************************************************************)
\* last index of the line that holds position p
LineEnd(s, p) ==
  LET nl == {i \in p..Len(s) : s[i] = "\n"}
  IN  IF nl = {} THEN Len(s) ELSE Min(nl) - 1

\* first index at or after p that holds no '#', Len(s)+1 if none
HashRunEnd(s, p) ==
  LET out == {i \in p..Len(s) : s[i] # "#"}
  IN  IF out = {} THEN Len(s) + 1 ELSE Min(out)

\* first index at or after p that holds no whitespace, Len(s)+1 if none
SpaceRunEnd(s, p) ==
  LET out == {i \in p..Len(s) : ~IsSpace(s[i])}
  IN  IF out = {} THEN Len(s) + 1 ELSE Min(out)

\* index of the last character of the match that starts at p, 0 if none:
\* '#+' takes the whole run of hashes, '\s+' the whole run of whitespace
\* (newlines included) and '.+' the rest of the line; when the whitespace
\* runs to the end of the text, '\s+' gives characters back until '.+' can
\* start on one that is not a newline.
HeaderMatchEnd(s, p) ==
  IF ~(p = 1 \/ s[p-1] = "\n") \/ s[p] # "#" THEN 0
  ELSE LET h == HashRunEnd(s, p)
           q == SpaceRunEnd(s, h)
       IN  IF q = h THEN 0
           ELSE IF q <= Len(s) THEN LineEnd(s, q)
           ELSE LET back == {j \in (h+1)..Len(s) : s[j] # "\n"}
                IN  IF back = {} THEN 0 ELSE LineEnd(s, Max(back))

\* first index of the line after the first newline at or after p
NextLineStart(s, p) ==
  LET nl == {i \in p..Len(s) : s[i] = "\n"}
  IN  IF nl = {} THEN Len(s) + 1 ELSE Min(nl) + 1

\* number of matches found scanning from the line start p: a match is
\* followed by the search of the rest, which can only match at a line start
RECURSIVE findall_headers(_, _)
findall_headers(s, p) ==
  IF p > Len(s) THEN 0
  ELSE LET e == HeaderMatchEnd(s, p)
       IN  IF e > 0 THEN 1 + findall_headers(s, NextLineStart(s, e + 1))
           ELSE findall_headers(s, NextLineStart(s, p))

(***************************************************************************)
(* json.loads(line) succeeds: over the alphabet of the model's event logs  *)
(* (digit 1, letter w, blank, newline) a line is one JSON value exactly    *)
(* when, JSON whitespace aside, it is a non-empty run of digits.           *)
(***************************************************************************)
json_loads_ok(line) ==
  LET t == strip(line)
  IN  Len(t) > 0 /\ \A i \in 1..Len(t) : t[i] = "1"

(***************************************************************************)
(* Text constants of the rules                                             *)
(***************************************************************************)
Identity == <<"I","d","e","n","t","i","t","y">>
Tone == <<"T","o","n","e">>
Behavior == <<"B","e","h","a","v","i","o","r">>
SelfUnderstanding ==
  <<"S","e","l","f","-","U","n","d","e","r","s","t","a","n","d","i","n","g">>
john == <<"j","o","h","n">>

\* required_sections = ['Identity', 'Tone', 'Behavior', 'Self-Understanding']
required_sections ==
  << [name |-> "Identity", text |-> Identity],
     [name |-> "Tone", text |-> Tone],
     [name |-> "Behavior", text |-> Behavior],
     [name |-> "Self-Understanding", text |-> SelfUnderstanding] >>

\* a warning message: its fixed text, the section it names (f'...: {section}')
\* and the line number it cites (f'... line {i+1}'); "" and 0 when it has none
Warning(text, section, line) == [text |-> text, section |-> section, line |-> line]

NoMetrics == [none |-> 0]

(***************************************************************************)
(* _validate_markdown_structure(filename, content)                         *)
(***************************************************************************)
MissingSections(content) ==
  LET missing(sec) == ~contains(lower(sec.text), lower(content))
      miss == SelectSeq(required_sections, missing)
  IN  [k \in 1..Len(miss) |->
         Warning("Missing recommended section", miss[k].name, 0)]

markdown_metrics(content) ==
  [header_count |-> findall_headers(content, 1),
   word_count |-> word_count(content),
   line_count |-> line_count(content)]

\* the word-count rule as the default branch instead of a branch by name
markdown_warnings_by_default(filename, content) ==
  LET header == IF ~startswith(strip(content), "#")
                THEN <<Warning("Missing main header", "", 0)>> ELSE <<>>
      specific ==
        IF filename = "persona.md" THEN MissingSections(content)
        ELSE IF filename = "relationship_dynamics.md"
          THEN IF ~contains(john, lower(content))
               THEN <<Warning("No reference to primary collaborator John", "", 0)>>
               ELSE <<>>
        ELSE IF markdown_metrics(content).word_count < MinWordCount
               THEN <<Warning("Technical domains seem underdeveloped", "", 0)>>
               ELSE <<>>
  IN  header \o specific

markdown_warnings(filename, content) ==
  LET header == IF ~startswith(strip(content), "#")
                THEN <<Warning("Missing main header", "", 0)>> ELSE <<>>
      specific ==
        IF filename = "persona.md" THEN MissingSections(content)
        ELSE IF filename = "relationship_dynamics.md"
          THEN IF ~contains(john, lower(content))
               THEN <<Warning("No reference to primary collaborator John", "", 0)>>
               ELSE <<>>
        ELSE IF filename = "technical_domains.md"
          THEN IF markdown_metrics(content).word_count < MinWordCount
               THEN <<Warning("Technical domains seem underdeveloped", "", 0)>>
               ELSE <<>>
        ELSE <<>>
  IN  header \o specific

\* a validator in which warnings make the document invalid
validate_markdown_structure_strict(filename, content) ==
  [valid |-> markdown_warnings(filename, content) = <<>>,
   warnings |-> markdown_warnings(filename, content),
   metrics |-> markdown_metrics(content), error |-> ""]

validate_markdown_structure(filename, content) ==
  [valid |-> TRUE, warnings |-> markdown_warnings(filename, content),
   metrics |-> markdown_metrics(content), error |-> ""]

(***************************************************************************)
(* _validate_jsonl_structure(filename, content)                            *)
(***************************************************************************)
validate_jsonl_structure(filename, content) ==
  LET lines == split_nl(strip(content))
      idx == [i \in 1..Len(lines) |-> i]
      nonblank(i) == strip(lines[i]) # <<>>
      parsed(i) == nonblank(i) /\ json_loads_ok(lines[i])
      failed(i) == nonblank(i) /\ ~json_loads_ok(lines[i])
      valid_json_count == Len(SelectSeq(idx, parsed))
      bad == SelectSeq(idx, failed)
      warnings == [k \in 1..Len(bad) |-> Warning("Invalid JSON on line", "", bad[k])]
      metrics == [total_lines |-> Len(lines),
                  valid_json_lines |-> valid_json_count,
                  invalid_lines |-> Len(lines) - valid_json_count]
  IN  [valid |-> ~(metrics.invalid_lines > 0), warnings |-> warnings,
       metrics |-> metrics,
       error |-> IF metrics.invalid_lines > 0 THEN "invalid JSON lines" ELSE ""]

(***************************************************************************)
(* The pack directory: fs[f] is the state of artifact f on disk.           *)
(*   kind "absent"     no such path                                        *)
(*        "file"       regular file whose text is `content`                *)
(*        "unreadable" regular file whose read_text raises (permission     *)
(*                     denied, bytes that are not UTF-8)                   *)
(*        "dir"        a directory of that name                            *)
(*        "special"    a non-regular file that reads as empty text         *)
(*                     (a link to the null device)                         *)
(* size is what stat() reports; one character is one byte.                 *)
(***************************************************************************)
Absent == [kind |-> "absent", content |-> <<>>, size |-> 0]
RegularFile(content) == [kind |-> "file", content |-> content, size |-> Len(content)]
Unreadable(size) == [kind |-> "unreadable", content |-> <<>>, size |-> size]
Directory == [kind |-> "dir", content |-> <<>>, size |-> 4096]
Special == [kind |-> "special", content |-> <<>>, size |-> 0]

\* file_path.exists()
exists(d, f) == d[f].kind # "absent"
\* file_path.is_file()
is_file(d, f) == d[f].kind \in {"file", "unreadable"}
\* file_path.read_text(encoding='utf-8') raises
read_raises(d, f) == d[f].kind \in {"unreadable", "dir"}

(***************************************************************************)
(* _validate_file_structure(results)                                       *)
(* The except branch needs stat() to fail on a path exists() has just      *)
(* seen, i.e. a concurrent change of the directory; it is not taken here.  *)
(***************************************************************************)
\* error is file_result['error'], "" when the key is not set
file_structure(d) ==
  [f \in Files |->
     [exists |-> exists(d, f),
      readable |-> IF exists(d, f) THEN is_file(d, f) ELSE FALSE,
      size_bytes |-> IF exists(d, f) THEN d[f].size ELSE 0,
      error |-> ""]]

\* a pass that fails only when nothing at all is there
all_files_valid_some(d) == \E f \in Files : exists(d, f)

all_files_valid(d) == \A f \in Files : exists(d, f)

(***************************************************************************)
(* _validate_content_structure(results)                                    *)
(***************************************************************************)
\* the dispatch on the file type, lines 120-125
validate_content(f, content) ==
  IF Suffix(f) = ".md" THEN validate_markdown_structure(f, content)
  ELSE IF Suffix(f) = ".jsonl" THEN validate_jsonl_structure(f, content)
  ELSE [valid |-> FALSE, warnings |-> <<>>, metrics |-> NoMetrics,
        error |-> "Unknown file type"]

\* a loop body that runs the rules on empty text when the read fails
content_entry_reads_empty(d, f) ==
  IF read_raises(d, f)
  THEN [validate_content(f, <<>>) EXCEPT !.valid = FALSE, !.error = "read_error"]
  ELSE validate_content(f, d[f].content)

\* the body of the loop for one artifact that exists: the except branch
\* stores {'valid': False, 'error': str(e)}, with no warnings and no metrics
content_entry(d, f) ==
  IF read_raises(d, f)
  THEN [valid |-> FALSE, warnings |-> <<>>, metrics |-> NoMetrics,
        error |-> "read_error"]
  ELSE validate_content(f, d[f].content)

IndexOf(f) == CHOOSE i \in 1..Len(required_files) : required_files[i] = f

\* a loop that stops at the first artifact whose validation is not valid
content_validation_aborting(d) ==
  [f \in {g \in Files :
            /\ exists(d, g)
            /\ \A h \in Files :
                 (exists(d, h) /\ IndexOf(h) < IndexOf(g)) => content_entry(d, h).valid}
     |-> content_entry(d, f)]

content_validation(d) ==
  [f \in {g \in Files : exists(d, g)} |-> content_entry(d, f)]

all_content_valid(cv) == \A f \in DOMAIN cv : cv[f].valid

(***************************************************************************)
(* _validate_cross_references(results)                                     *)
(***************************************************************************)
cross_references ==
  [status |-> "basic_check_passed",
   notes |-> "Advanced cross-reference validation not yet implemented"]

cross_ref_valid == TRUE

(***************************************************************************)
(* _generate_recommendations(results)                                      *)
(***************************************************************************)
\* f"Consider expanding {filename} - currently very brief"
SizeNote(f) ==
  [file |-> f, text |-> "Consider expanding - currently very brief",
   section |-> "", line |-> 0]

\* f"{filename}: {warning}"
WarningNote(f, w) ==
  [file |-> f, text |-> w.text, section |-> w.section, line |-> w.line]

RECURSIVE SizeNotes(_, _)
SizeNotes(fstruct, i) ==
  IF i > Len(required_files) THEN <<>>
  ELSE LET f == required_files[i]
       IN  (IF fstruct[f].size_bytes < MinSizeBytes THEN <<SizeNote(f)>> ELSE <<>>)
             \o SizeNotes(fstruct, i + 1)

RECURSIVE WarningNotes(_, _)
WarningNotes(cv, i) ==
  IF i > Len(required_files) THEN <<>>
  ELSE LET f == required_files[i]
       IN  (IF f \in DOMAIN cv
            THEN [k \in 1..Len(cv[f].warnings) |-> WarningNote(f, cv[f].warnings[k])]
            ELSE <<>>)
             \o WarningNotes(cv, i + 1)

\* recommendations with the warnings ahead of the size notes
generate_recommendations_swapped(fstruct, cv) ==
  WarningNotes(cv, 1) \o SizeNotes(fstruct, 1)

generate_recommendations(fstruct, cv) == SizeNotes(fstruct, 1) \o WarningNotes(cv, 1)

(***************************************************************************)
(* validate_all()                                                          *)
(***************************************************************************)
\* a status that looks at the file-structure pass only
overall_status_structure_only(structure_valid, content_valid, xref_valid) ==
  IF structure_valid /\ xref_valid THEN "VALID" ELSE "INVALID"

overall_status(structure_valid, content_valid, xref_valid) ==
  IF structure_valid /\ content_valid /\ xref_valid THEN "VALID"
  ELSE IF structure_valid /\ content_valid THEN "VALID_WITH_WARNINGS"
  ELSE "INVALID"

validate_all(d) ==
  LET fstruct == file_structure(d)
      cv == content_validation(d)
  IN  [overall_status |->
         overall_status(all_files_valid(d), all_content_valid(cv), cross_ref_valid),
       file_structure |-> fstruct,
       content_validation |-> cv,
       cross_references |-> cross_references,
       recommendations |-> generate_recommendations(fstruct, cv)]

(***************************************************************************)
(* Packs the environment can put on disk                                   *)
(***************************************************************************)
Rep(c, n) == [i \in 1..n |-> c]

\* n one-letter words separated by single blanks
Words(n) == [i \in 1..(2 * n - 1) |-> IF i % 2 = 1 THEN "w" ELSE " "]

Sp == <<" ">>
Nl == <<"\n">>

GoodPersona ==
  <<"#">> \o Sp \o Identity \o Sp \o Tone \o Sp \o Behavior \o Sp
    \o SelfUnderstanding \o Nl \o Words(29)
GoodRelationship == <<"#", " ", "J", "o", "h", "n", "\n">> \o Words(47)
\* exactly 50 words in exactly 100 bytes
GoodTechnical == <<"#", "#", " ">> \o Words(49)
GoodVoice == <<"#", " ">> \o Words(50)
\* three JSON lines, 101 bytes
GoodLog == Rep("1", 33) \o Nl \o Rep("1", 33) \o Nl \o Rep("1", 33)
\* the same three JSON lines with an empty line after the first
SpacedLog == Rep("1", 33) \o Nl \o Nl \o Rep("1", 33) \o Nl \o Rep("1", 33)

GoodPack ==
  [f \in Files |->
     RegularFile(CASE f = "persona.md" -> GoodPersona
                   [] f = "relationship_dynamics.md" -> GoodRelationship
                   [] f = "technical_domains.md" -> GoodTechnical
                   [] f = "stylistic_voice.md" -> GoodVoice
                   [] OTHER -> GoodLog)]

EmptyPack == [f \in Files |-> Absent]

\* the texts an edit of the whole pack chooses from
SampleContents(f) ==
  CASE f = "persona.md" ->
         { GoodPersona,
           lower(Identity \o Sp \o Tone \o Sp \o Behavior \o Sp \o SelfUnderstanding),
           <<"#">> \o Sp \o Identity \o Sp \o Tone }
    [] f = "relationship_dynamics.md" ->
         { GoodRelationship, <<"#", " ", "w">>, john }
    [] f = "technical_domains.md" ->
         { GoodTechnical,
           Rep("#", 5) \o Sp \o Words(48),     \* 49 words, 101 bytes
           <<"#", " ">> \o Words(9) }          \* 10 words
    [] f = "stylistic_voice.md" ->
         { GoodVoice, <<"#", "w">>, <<>> }
    [] OTHER ->
         { GoodLog, SpacedLog, <<"1", "\n", "1", "\n", "1">>, <<"w">>,
           <<"1", "\n", "\n", "1">>, <<>> }

UnreadableSizes == {10, 200}

Distance(d, base) == Cardinality({f \in Files : d[f] # base[f]})
NearBase(d) == Distance(d, GoodPack) <= MaxDiff \/ Distance(d, EmptyPack) <= MaxDiff

LogAlphabet == {"1", "w", " ", "\n"}
DocAlphabet == {"#", "w", " ", "\n"}

(***************************************************************************)
(* State                                                                   *)
(*   fs        the pack directory                                          *)
(*   results   the report of the last validate_all on this directory       *)
(*   pc        "idle" before a run on the current directory, "done" after  *)
(*   prev      event-log verdict and status of the run before the last     *)
(*             edit of the event log                                       *)
(*   lastEdit  what the last change of the directory was                   *)
(***************************************************************************)
BlankResults ==
  [overall_status |-> "UNKNOWN", file_structure |-> <<>>,
   content_validation |-> <<>>, cross_references |-> <<>>,
   recommendations |-> <<>>]

NoPrev == [ran |-> FALSE, log_valid |-> FALSE, status |-> "UNKNOWN"]

Summary(r) ==
  [ran |-> TRUE,
   log_valid |-> IF LogFile \in DOMAIN r.content_validation
                 THEN r.content_validation[LogFile].valid ELSE FALSE,
   status |-> r.overall_status]

(***************************************************************************)
(* The command line, main()                                                *)
(***************************************************************************)
\* validation_results.json in the pack directory: absent, a file holding
\* what json.dump wrote, or something open(..., 'w') cannot write to
NoReport == [kind |-> "absent", timestamp |-> 0, results |-> BlankResults]
ReportFile(now, res) == [kind |-> "file", timestamp |-> now, results |-> res]
BlockedReport == [kind |-> "dir", timestamp |-> 0, results |-> BlankResults]

\* what sys.argv[1] names: nothing, a regular file, or a directory
PathKinds == {"missing", "file", "dir"}

\* os.path.exists(memory_pack_path)
path_exists(p) == p # "missing"

\* open(results_file, 'w') succeeds
can_write(p, rep) == p = "dir" /\ rep.kind # "dir"

\* the outcome of the last run of the command line
NoRun ==
  [ran |-> FALSE, argc |-> 0, exit_code |-> 0, validated |-> FALSE, wrote |-> FALSE]

\* a validator that also lists the report file it finds in the directory
cli_results_listing_report(d, rep) ==
  IF rep.kind = "file"
  THEN [validate_all(d) EXCEPT
          !.recommendations = Append(@, SizeNote("validation_results.json"))]
  ELSE validate_all(d)

\* MemoryPackValidator(memory_pack_path).validate_all(): the validator looks
\* at the five required files only, never at the report next to them
cli_results(d, rep) == validate_all(d)

\* main() with sys.argv of length argc, at time now
main(argc, p, d, rep, now) ==
  IF argc # 2 \/ ~path_exists(p)
  THEN [exit_code |-> 1, validated |-> FALSE, wrote |-> FALSE,
        results |-> BlankResults, report |-> rep]
  ELSE LET res == cli_results(d, rep)
       IN  IF can_write(p, rep)
           THEN [exit_code |-> 0, validated |-> TRUE, wrote |-> TRUE,
                 results |-> res, report |-> ReportFile(now, res)]
           ELSE [exit_code |-> 1, validated |-> TRUE, wrote |-> FALSE,
                 results |-> res, report |-> rep]

(***************************************************************************)
(* The inheritance tracker, inheritance_tracker.py                         *)
(***************************************************************************)
CeremonyIds == 1..MaxIds
Notes == {"", "n"}

\* inheritance_log.json: absent, or a file holding the list "ceremonies"
NoLog == [exists |-> FALSE, ceremonies |-> <<>>]
LogOf(cs) == [exists |-> TRUE, ceremonies |-> cs]

IdsOf(lg) == {lg.ceremonies[i].ceremony_id : i \in 1..Len(lg.ceremonies)}

\* _validate_memory_pack
validate_memory_pack(d) ==
  [valid |-> \A f \in Files : exists(d, f),
   missing_files |-> {f \in Files : ~exists(d, f)},
   file_count |-> Cardinality({f \in Files : exists(d, f)})]

\* the ceremony_data dict of create_inheritance_ceremony
ceremony_data(id, notes, d) ==
  [ceremony_id |-> id, notes |-> notes,
   validation_results |-> validate_memory_pack(d),
   ceremony_status |-> "initiated"]

\* a log that always appends
update_inheritance_log_append(lg, data) ==
  LogOf(Append(lg.ceremonies, data))

\* _update_inheritance_log: replace the first entry with the same
\* ceremony_id, else append; the file is created when it is absent
update_inheritance_log(lg, data) ==
  LET cs == lg.ceremonies
      hits == {i \in 1..Len(cs) : cs[i].ceremony_id = data.ceremony_id}
  IN  IF hits # {}
      THEN LogOf([cs EXCEPT ![CHOOSE i \in hits : \A j \in hits : i <= j] = data])
      ELSE LogOf(Append(cs, data))

\* _load_ceremony_data: None when the log is absent or has no such entry
load_ceremony_data(lg, id) ==
  LET cs == lg.ceremonies
      hits == {i \in 1..Len(cs) : cs[i].ceremony_id = id}
  IN  IF ~lg.exists \/ hits = {}
      THEN [found |-> FALSE, data |-> ceremony_data(id, "", EmptyPack)]
      ELSE [found |-> TRUE,
            data |-> cs[CHOOSE i \in hits : \A j \in hits : i <= j]]

completed(data) == [data EXCEPT !.ceremony_status = "completed"]

\* a completion that does not look the ceremony up first
complete_ceremony_unchecked(lg, certs, id) ==
  LET loaded == load_ceremony_data(lg, id)
  IN  [ok |-> TRUE,
       log |-> update_inheritance_log(lg, completed(loaded.data)),
       certs |-> certs \cup {id}]

\* complete_ceremony: what it returns, the log and the certificates after it
complete_ceremony(lg, certs, id) ==
  LET loaded == load_ceremony_data(lg, id)
  IN  IF ~loaded.found
      THEN [ok |-> FALSE, log |-> lg, certs |-> certs]
      ELSE [ok |-> TRUE,
            log |-> update_inheritance_log(lg, completed(loaded.data)),
            certs |-> certs \cup {id}]

NoCall == [op |-> "none", id |-> 0, ok |-> FALSE]

InitWith(pack) ==
  /\ fs = pack
  /\ results = BlankResults
  /\ pc = "idle"
  /\ prev = NoPrev
  /\ lastEdit = "none"
  /\ path = "dir"
  /\ report = NoReport
  /\ cli = NoRun
  /\ history = <<>>
  /\ inheritance_log = NoLog
  /\ ceremony_docs = {}
  /\ certificates = {}
  /\ ret = NoCall

Edit(f, new, tag) ==
  /\ fs' = [fs EXCEPT ![f] = new]
  /\ results' = BlankResults
  /\ pc' = "idle"
  /\ prev' = IF tag \in {"append_bad", "fix_all"} THEN Summary(results) ELSE NoPrev
  /\ lastEdit' = tag
  /\ cli' = NoRun
  /\ history' = <<>>
  /\ UNCHANGED <<path, report>>
  /\ UNCHANGED trackerVars

\* validator.validate_all() on the current directory
ValidateAll ==
  /\ pc = "idle"
  /\ results' = validate_all(fs)
  /\ pc' = "done"
  /\ UNCHANGED <<fs, prev, lastEdit, path, report, cli, history>>
  /\ UNCHANGED trackerVars

(***************************************************************************)
(* Edits of the whole pack                                                 *)
(***************************************************************************)
WriteFile ==
  \E f \in Files : \E c \in SampleContents(f) :
    /\ fs[f] # RegularFile(c)
    /\ NearBase([fs EXCEPT ![f] = RegularFile(c)])
    /\ Edit(f, RegularFile(c), "write")

RemoveFile ==
  \E f \in Files :
    /\ fs[f] # Absent
    /\ NearBase([fs EXCEPT ![f] = Absent])
    /\ Edit(f, Absent, "write")

MakeUnreadable ==
  \E f \in Files : \E n \in UnreadableSizes :
    /\ fs[f] # Unreadable(n)
    /\ NearBase([fs EXCEPT ![f] = Unreadable(n)])
    /\ Edit(f, Unreadable(n), "write")

MakeDirectory ==
  \E f \in Files :
    /\ fs[f] # Directory
    /\ NearBase([fs EXCEPT ![f] = Directory])
    /\ Edit(f, Directory, "write")

MakeSpecial ==
  \E f \in Files :
    /\ fs[f] # Special
    /\ NearBase([fs EXCEPT ![f] = Special])
    /\ Edit(f, Special, "write")

Init == \E pack \in {EmptyPack, GoodPack} : InitWith(pack)

Next ==
  \/ WriteFile
  \/ RemoveFile
  \/ MakeUnreadable
  \/ MakeDirectory
  \/ MakeSpecial
  \/ ValidateAll

Spec == Init /\ [][Next]_vars

(***************************************************************************)
(* Edits of the event log alone, the rest of the pack being complete       *)
(***************************************************************************)
LogText == fs[LogFile].content

AppendLogChar ==
  \E c \in LogAlphabet :
    /\ fs[LogFile].kind = "file"
    /\ Len(LogText) < MaxLogLen
    /\ Edit(LogFile, RegularFile(Append(LogText, c)), "write")

\* the text with one more line at its end
AppendLine(s, line) ==
  IF s = <<>> \/ s[Len(s)] = "\n" THEN s \o line \o Nl ELSE s \o Nl \o line

\* one more malformed line at the end of the log
AppendMalformedLine ==
  /\ pc = "done"
  /\ fs[LogFile].kind = "file"
  /\ Len(LogText) <= MaxLogLen
  /\ Edit(LogFile, RegularFile(AppendLine(LogText, <<"w">>)), "append_bad")

\* the text with every non-blank line that fails to parse replaced by a
\* JSON value, line breaks and blank lines kept
RECURSIVE JoinLines(_)
JoinLines(ls) ==
  IF Len(ls) = 0 THEN <<>>
  ELSE IF Len(ls) = 1 THEN ls[1]
  ELSE ls[1] \o Nl \o JoinLines(Tail(ls))

FixedText(s) ==
  LET ls == split_nl(s)
  IN  JoinLines([i \in 1..Len(ls) |->
                   IF strip(ls[i]) # <<>> /\ ~json_loads_ok(ls[i])
                   THEN <<"1">> ELSE ls[i]])

FixMalformedLines ==
  /\ pc = "done"
  /\ fs[LogFile].kind = "file"
  /\ FixedText(LogText) # LogText
  /\ Edit(LogFile, RegularFile(FixedText(LogText)), "fix_all")

InitLog == InitWith([GoodPack EXCEPT ![LogFile] = RegularFile(<<>>)])

NextLog ==
  \/ AppendLogChar
  \/ AppendMalformedLine
  \/ FixMalformedLines
  \/ ValidateAll

SpecLog == InitLog /\ [][NextLog]_vars

(***************************************************************************)
(* Edits of one structured document, the rest of the pack being complete   *)
(***************************************************************************)
AppendDocChar ==
  \E f \in MdFiles : \E c \in DocAlphabet :
    /\ fs[f].kind = "file"
    /\ fs[f] # GoodPack[f]
    /\ Len(fs[f].content) < MaxDocLen
    /\ Edit(f, RegularFile(Append(fs[f].content, c)), "write")

\* the event log next to the document under edit
LogStates ==
  { GoodPack[LogFile], RegularFile(<<"w">>), RegularFile(<<>>),
    Unreadable(200), Absent }

InitDoc ==
  \E f \in MdFiles : \E l \in LogStates :
    InitWith([GoodPack EXCEPT ![f] = RegularFile(<<>>), ![LogFile] = l])

NextDoc ==
  \/ AppendDocChar
  \/ ValidateAll

SpecDoc == InitDoc /\ [][NextDoc]_vars

(***************************************************************************)
(* Runs of the command line on a pack directory                            *)
(***************************************************************************)
Damage == {Absent, Unreadable(10), Directory, RegularFile(<<"w">>)}

\* the complete pack and the packs with one damaged artifact
CliPacks ==
  {GoodPack} \cup {[GoodPack EXCEPT ![f] = x] : f \in Files, x \in Damage}

\* python memory_pack_validator.py ... : one run of main() from start to exit
Main ==
  \E argc \in 1..MaxArgc : \E now \in 1..MaxTime :
    LET out == main(argc, path, fs, report, now)
    IN  /\ Len(history) < MaxRuns
        /\ results' = out.results
        /\ pc' = IF out.validated THEN "done" ELSE "idle"
        /\ report' = out.report
        /\ cli' = [ran |-> TRUE, argc |-> argc, exit_code |-> out.exit_code,
                    validated |-> out.validated, wrote |-> out.wrote]
        /\ history' = IF out.wrote THEN Append(history, out.report) ELSE history
        /\ UNCHANGED <<fs, prev, lastEdit, path>>
        /\ UNCHANGED trackerVars

\* one artifact of the pack directory is damaged or restored
ChangeArtifact ==
  \E f \in Files : \E x \in Damage \cup {GoodPack[f]} :
    /\ path = "dir"
    /\ fs[f] # x
    /\ [fs EXCEPT ![f] = x] \in CliPacks
    /\ Edit(f, x, "write")

\* validation_results.json is replaced by a directory, or removed
ChangeReport ==
  \E r \in {BlockedReport, NoReport} :
    /\ path = "dir"
    /\ report # r
    /\ report' = r
    /\ results' = BlankResults
    /\ pc' = "idle"
    /\ cli' = NoRun
    /\ history' = <<>>
    /\ UNCHANGED <<fs, prev, lastEdit, path>>
    /\ UNCHANGED trackerVars

\* the path is removed, becomes a regular file, or a new complete pack
ChangePath ==
  \E k \in PathKinds :
    /\ path # k
    /\ path' = k
    /\ fs' = IF k = "dir" THEN GoodPack ELSE EmptyPack
    /\ report' = NoReport
    /\ results' = BlankResults
    /\ pc' = "idle"
    /\ cli' = NoRun
    /\ history' = <<>>
    /\ UNCHANGED <<prev, lastEdit>>
    /\ UNCHANGED trackerVars

InitCli == InitWith(GoodPack)

NextCli ==
  \/ Main
  \/ ChangeArtifact
  \/ ChangeReport
  \/ ChangePath

SpecCli == InitCli /\ [][NextCli]_vars

(***************************************************************************)
(* Calls of the inheritance tracker on one pack directory                  *)
(***************************************************************************)
\* tracker.create_inheritance_ceremony(...): the id is whatever
\* _generate_ceremony_id returns, which may be an id already in the log
CreateInheritanceCeremony ==
  \E id \in CeremonyIds : \E notes \in Notes :
    /\ inheritance_log' = update_inheritance_log(inheritance_log, ceremony_data(id, notes, fs))
    /\ ceremony_docs' = ceremony_docs \cup {id}
    /\ ret' = [op |-> "create", id |-> id, ok |-> TRUE]
    /\ UNCHANGED certificates
    /\ UNCHANGED validatorVars

\* tracker.complete_ceremony(ceremony_id)
CompleteCeremony ==
  \E id \in CeremonyIds :
    LET out == complete_ceremony(inheritance_log, certificates, id)
    IN  /\ inheritance_log' = out.log
        /\ certificates' = out.certs
        /\ ret' = [op |-> "complete", id |-> id, ok |-> out.ok]
        /\ UNCHANGED ceremony_docs
        /\ UNCHANGED validatorVars

InitTracker ==
  /\ fs \in {EmptyPack, GoodPack}
  /\ results = BlankResults
  /\ pc = "idle"
  /\ prev = NoPrev
  /\ lastEdit = "none"
  /\ path = "dir"
  /\ report = NoReport
  /\ cli = NoRun
  /\ history = <<>>
  /\ inheritance_log \in {NoLog, LogOf(<<>>)}
  /\ ceremony_docs = {}
  /\ certificates = {}
  /\ ret = NoCall

NextTracker ==
  \/ CreateInheritanceCeremony
  \/ CompleteCeremony

SpecTracker == InitTracker /\ [][NextTracker]_vars

(***************************************************************************)
(* Properties                                                              *)
(***************************************************************************)
Done == pc = "done"
CV == results.content_validation
FS == results.file_structure
Recs == results.recommendations

\* what a reader of the directory sees, independently of the validator
Missing(f) == fs[f].kind = "absent"
ReadFails(f) == fs[f].kind \in {"unreadable", "dir"}
AllPresentAndReadable == \A f \in Files : ~Missing(f) /\ ~ReadFails(f)
AllContentValid == \A f \in DOMAIN CV : CV[f].valid
SomeWarning == \E f \in DOMAIN CV : CV[f].warnings # <<>>

Rank(status) ==
  CASE status = "VALID" -> 2 [] status = "VALID_WITH_WARNINGS" -> 1 [] OTHER -> 0

\* the lines of the log file as written, N of them non-blank, M malformed
NonBlankLines(s) ==
  LET ls == split_nl(s) IN {i \in 1..Len(ls) : strip(ls[i]) # <<>>}
MalformedLines(s) ==
  LET ls == split_nl(s) IN {i \in NonBlankLines(s) : ~json_loads_ok(ls[i])}
N == Cardinality(NonBlankLines(LogText))
M == Cardinality(MalformedLines(LogText))
LogRead == Done /\ fs[LogFile].kind = "file"

\* C1: after validate_all, when no required artifact is missing or
\* unreadable and every content validation is valid, overall_status is
\* VALID_WITH_WARNINGS if some artifact has a warning and VALID only if
\* none has.
C1_WarningsDowngradeStatus ==
  (Done /\ AllPresentAndReadable /\ AllContentValid) =>
     results.overall_status =
       (IF SomeWarning THEN "VALID_WITH_WARNINGS" ELSE "VALID")

C3_CountsOfEventLog ==
  LogRead =>
    /\ CV[LogFile].metrics.valid_json_lines = N - M
    /\ Len(CV[LogFile].warnings) = M
    /\ CV[LogFile].valid = (M = 0)

\* C4: blank lines are skipped and never counted as invalid: the reported
\* invalid-line count is the number of non-blank lines that failed to parse,
\* and valid count + invalid count is the number of non-blank lines.
C4_BlankLinesNotInvalid ==
  LogRead =>
    /\ CV[LogFile].metrics.invalid_lines = M
    /\ CV[LogFile].metrics.valid_json_lines + CV[LogFile].metrics.invalid_lines = N

\* C5: an event log with no non-blank line is valid, and a pack whose other
\* artifacts are fine is not INVALID because of it.
C5_EmptyLogIsValid ==
  (LogRead /\ N = 0) =>
    /\ CV[LogFile].valid
    /\ (\A f \in MdFiles : fs[f] = GoodPack[f]) => results.overall_status # "INVALID"

\* C6: one more malformed line at the end of an invalid log keeps it
\* invalid; replacing every malformed line by a JSON line and nothing else
\* makes the log valid and never worsens overall_status.
C6_EventLogMonotone ==
  /\ (LogRead /\ lastEdit = "append_bad" /\ prev.ran /\ ~prev.log_valid)
       => ~CV[LogFile].valid
  /\ (LogRead /\ lastEdit = "fix_all" /\ prev.ran)
       => /\ CV[LogFile].valid
          /\ Rank(results.overall_status) >= Rank(prev.status)

C8_NoHeaderGivesWarning ==
  Done =>
    \A f \in MdFiles :
      (fs[f].kind = "file" /\ CV[f].metrics.header_count = 0) =>
         /\ \E k \in 1..Len(CV[f].warnings) : CV[f].warnings[k].text = "Missing main header"
         /\ CV[f].valid

\* C9: the recommendations are, without deduplication, one size note per
\* required artifact whose recorded size is under 100 bytes, followed by
\* every warning of every content validation, in artifact order and then
\* warning order; their number is the number of undersized artifacts plus
\* the number of warnings.
RECURSIVE WarningsBefore(_)
WarningsBefore(i) ==
  IF i <= 1 THEN 0
  ELSE WarningsBefore(i - 1)
         + (IF required_files[i-1] \in DOMAIN CV
            THEN Len(CV[required_files[i-1]].warnings) ELSE 0)

Undersized == SelectSeq(required_files, LAMBDA f : FS[f].size_bytes < 100)

C9_RecommendationsAreFlattening ==
  Done =>
    /\ Len(Recs) = Len(Undersized) + WarningsBefore(Len(required_files) + 1)
    /\ \A k \in 1..Len(Undersized) :
         /\ Recs[k].file = Undersized[k]
         /\ Recs[k].text = "Consider expanding - currently very brief"
    /\ \A i \in 1..Len(required_files) :
         required_files[i] \in DOMAIN CV =>
           \A j \in 1..Len(CV[required_files[i]].warnings) :
             LET r == Recs[Len(Undersized) + WarningsBefore(i) + j]
                 w == CV[required_files[i]].warnings[j]
             IN  /\ r.file = required_files[i]
                 /\ r.text = w.text /\ r.section = w.section /\ r.line = w.line

C9_Witness ==
  /\ Done
  /\ Len(Undersized) >= 2
  /\ Len(Undersized) < Len(required_files)
  /\ Cardinality({f \in DOMAIN CV : CV[f].warnings # <<>>}) >= 2
  /\ \E f \in DOMAIN CV : Len(CV[f].warnings) >= 2

\* C10: when all five artifacts are present, the persona document contains
\* the four topic keywords, the relationship document mentions the primary
\* collaborator, the technical-domains document has at least 50 words and
\* the event log has 3 valid JSON lines and no invalid line, overall_status
\* is VALID and there is no recommendation.
C10_CompletePackIsValid ==
  (/\ Done
   /\ \A f \in Files : fs[f].kind = "file"
   /\ \A i \in 1..Len(required_sections) :
        contains(lower(required_sections[i].text), lower(fs["persona.md"].content))
   /\ contains(john, lower(fs["relationship_dynamics.md"].content))
   /\ word_count(fs["technical_domains.md"].content) >= 50
   /\ N = 3 /\ M = 0)
  => /\ results.overall_status = "VALID"
     /\ Recs = <<>>

\* C11: every required artifact that is absent is reported with
\* exists = false, readable = false and size 0 and gets no content
\* validation; when at least one is absent overall_status is INVALID, and
\* when all five are absent all five entries show exists = false.
C11_AbsentArtifacts ==
  Done =>
    /\ \A f \in Files :
         Missing(f) =>
           /\ ~FS[f].exists /\ ~FS[f].readable /\ FS[f].size_bytes = 0
           /\ f \notin DOMAIN CV
    /\ (\E f \in Files : Missing(f)) => results.overall_status = "INVALID"
    /\ (\A f \in Files : Missing(f)) => \A f \in Files : ~FS[f].exists

C11_Witness ==
  /\ Done
  /\ \A f \in Files : Missing(f)
  /\ results.overall_status = "INVALID"
  /\ DOMAIN CV = {}

\* C12: an artifact that exists but cannot be opened or decoded (permission
\* error, encoding failure, not a regular file) is reported by the
\* file-structure pass with readable = false and the error message
\* captured, and the file-structure pass counts as failed.
C12_UnreadableFailsStructurePass ==
  Done =>
    \A f \in Files :
      (~Missing(f) /\ (ReadFails(f) \/ fs[f].kind # "file")) =>
        /\ ~FS[f].readable
        /\ FS[f].error # ""
        /\ ~all_files_valid(fs)

\* C13: the file-structure entry and the content validation of an artifact
\* depend on that artifact's own state only: they are what a run records for
\* it when every other artifact is complete, and when every other artifact
\* is absent; every artifact that is present gets a content validation.
Alone(f, base) == [base EXCEPT ![f] = fs[f]]

C13_FailureIsolation ==
  Done =>
    \A f \in Files :
      /\ ~Missing(f) <=> f \in DOMAIN CV
      /\ \A base \in {GoodPack, EmptyPack} :
           /\ FS[f] = validate_all(Alone(f, base)).file_structure[f]
           /\ ~Missing(f) =>
                CV[f] = validate_all(Alone(f, base)).content_validation[f]

C13_Witness ==
  /\ Done
  /\ Missing("persona.md")
  /\ ReadFails("relationship_dynamics.md")
  /\ \A f \in Files \ {"persona.md", "relationship_dynamics.md"} :
       f \in DOMAIN CV /\ CV[f].valid

\* C16: every event-log line that fails to parse is reported with its
\* 1-based line number in the log file, also when the file starts with
\* blank lines, and every later malformed line is reported too.
ReportedLines == {CV[LogFile].warnings[k].line : k \in 1..Len(CV[LogFile].warnings)}

C16_LineNumbersOfFile ==
  LogRead =>
    /\ ReportedLines = MalformedLines(LogText)
    /\ Len(CV[LogFile].warnings) = M
    /\ \A k \in 1..(Len(CV[LogFile].warnings) - 1) :
         CV[LogFile].warnings[k].line < CV[LogFile].warnings[k+1].line

\* C17: when reading an existing artifact fails, its content validation is
\* valid = false with the captured error and nothing else: no rule has run,
\* it has no warnings, and no recommendation comes from a warning of it.
C17_ReadFailureIsSoleEntry ==
  Done =>
    \A f \in Files :
      ReadFails(f) =>
        /\ f \in DOMAIN CV
        /\ ~CV[f].valid
        /\ CV[f].error = "read_error"
        /\ CV[f].warnings = <<>>
        /\ CV[f].metrics = NoMetrics
        /\ \A k \in 1..Len(Recs) :
             Recs[k].file = f => Recs[k].text = "Consider expanding - currently very brief"

C17_Witness ==
  /\ Done
  /\ \E f \in MdFiles : fs[f].kind = "unreadable" /\ FS[f].size_bytes < 100
  /\ \E f \in Files : fs[f].kind = "dir"

\* C18: the under-developed warning is emitted exactly when the artifact is
\* technical_domains.md and its word count is below 50 (49 warns, 50 does
\* not); the voice/style document gets no warning but the generic
\* missing-header one.
HasWarning(f, text) ==
  \E k \in 1..Len(CV[f].warnings) : CV[f].warnings[k].text = text

C18_RuleDispatchByName ==
  Done =>
    /\ \A f \in DOMAIN CV :
         ~ReadFails(f) =>
           (HasWarning(f, "Technical domains seem underdeveloped")
              <=> (f = "technical_domains.md" /\ word_count(fs[f].content) < 50))
    /\ ("stylistic_voice.md" \in DOMAIN CV) =>
         \A k \in 1..Len(CV["stylistic_voice.md"].warnings) :
           CV["stylistic_voice.md"].warnings[k].text = "Missing main header"

C18_Witness ==
  /\ Done
  /\ fs["technical_domains.md"].kind = "file"
  /\ word_count(fs["technical_domains.md"].content) = 49
  /\ HasWarning("technical_domains.md", "Technical domains seem underdeveloped")
  /\ \E f \in MdFiles \ {"technical_domains.md"} :
       fs[f].kind = "file" /\ word_count(fs[f].content) < 50

C15_ExitCodes ==
  (cli.ran /\ cli.argc = 2) =>
    /\ ~path_exists(path) =>
         cli.exit_code = 1 /\ ~cli.validated /\ ~cli.wrote
    /\ path_exists(path) =>
         cli.exit_code = 0 /\ cli.validated /\ cli.wrote /\ report.kind = "file"

Ceremonies == inheritance_log.ceremonies

NoTwoShareId ==
  \A i, j \in 1..Len(Ceremonies) :
    Ceremonies[i].ceremony_id = Ceremonies[j].ceremony_id => i = j

\* C19: from an empty or absent log, after any sequence of
\* create_inheritance_ceremony and complete_ceremony calls no two entries
\* share a ceremony_id; a create with an id not yet in the log adds exactly
\* one entry, a create with an id in the log adds none, and
\* complete_ceremony never changes the number of entries.
C19_LogIsUpsertById ==
  /\ []NoTwoShareId
  /\ [][ /\ (ret'.op = "create" /\ ret'.id \notin IdsOf(inheritance_log)) =>
              /\ Len(inheritance_log'.ceremonies) = Len(Ceremonies) + 1
              /\ IdsOf(inheritance_log') = IdsOf(inheritance_log) \cup {ret'.id}
         /\ (ret'.op = "create" /\ ret'.id \in IdsOf(inheritance_log)) =>
              Len(inheritance_log'.ceremonies) = Len(Ceremonies)
         /\ ret'.op = "complete" =>
              Len(inheritance_log'.ceremonies) = Len(Ceremonies) ]_vars

C19_Witness ==
  /\ Len(Ceremonies) = MaxIds
  /\ \E i \in 1..Len(Ceremonies) : Ceremonies[i].ceremony_status = "completed"
  /\ ret.op = "create"
  /\ Ceremonies[1].ceremony_id = ret.id
  /\ ret.id \in certificates

\* C20: complete_ceremony with an id that is not in the log, or with no log
\* at all, returns False, leaves the log as it is and writes no certificate.
C20_UnknownIdIsRejected ==
  [][ (ret'.op = "complete" /\ ret'.id \notin IdsOf(inheritance_log)) =>
        /\ ret'.ok = FALSE
        /\ inheritance_log' = inheritance_log
        /\ certificates' = certificates ]_vars

C20_Witness ==
  /\ ret.op = "complete"
  /\ ~ret.ok
  /\ ret.id \notin IdsOf(inheritance_log)
  /\ ret.id \notin certificates
  /\ Len(Ceremonies) > 0

\* the ids of the entries of the log with the given status
WithStatus(lg, status) ==
  {lg.ceremonies[i].ceremony_id :
     i \in {k \in 1..Len(lg.ceremonies) : lg.ceremonies[k].ceremony_status = status}}

StatusesKnown ==
  \A i \in 1..Len(Ceremonies) :
    Ceremonies[i].ceremony_status \in {"initiated", "completed"}

\* create_inheritance_ceremony logs its ceremony as initiated
CreateLogsInitiated ==
  ret'.op = "create" => ret'.id \in WithStatus(inheritance_log', "initiated")

\* a ceremony becomes completed only through complete_ceremony on its id
CompletedOnlyByComplete ==
  \A id \in WithStatus(inheritance_log', "completed") \ WithStatus(inheritance_log, "completed") :
    ret'.op = "complete" /\ ret'.id = id /\ ret'.ok

\* a completed ceremony stays completed
CompletedIsFinal ==
  WithStatus(inheritance_log, "completed") \subseteq WithStatus(inheritance_log', "completed")

\* C21: every logged ceremony has status initiated or completed; a ceremony
\* is logged as initiated by create_inheritance_ceremony, becomes completed
\* only through complete_ceremony on its id, and once completed it never
\* returns to initiated under any later create or complete call.
C21_StatusLifecycle ==
  /\ []StatusesKnown
  /\ [][CreateLogsInitiated /\ CompletedOnlyByComplete /\ CompletedIsFinal]_vars

====
